---------------------------- MODULE Spec2Model ----------------------------
(***************************************************************************)
(* Model of the WebRTC signaling server of src/server.js.                  *)
(*                                                                         *)
(* State: the two module-level Maps `users` and `rooms` (lines 22-23),     *)
(* the socket.io adapter's room membership of every socket (socket.join,   *)
(* socket.leave, socket.to(room), io.to(room)), the connection state of    *)
(* every socket, and the messages the last handler run emitted.            *)
(*                                                                         *)
(* Every socket.io event handler runs to completion on the single Node.js  *)
(* event loop, so each handler is one atomic action.                       *)
(***************************************************************************)
EXTENDS Naturals, Sequences, FiniteSets

(***************************************************************************)
(* Bounds of the model.                                                    *)
(***************************************************************************)
\* The number of join-room events the server processes in one run.
MaxJoins == 3

\* socket.id of the connections the server accepts (line 73), in the order
\* in which they connect.
SocketIds == <<"s1", "s2", "s3">>
Sockets == {SocketIds[i] : i \in 1..Len(SocketIds)}
\* Room names clients agree on out of band.
RoomNames == {"r1", "r2"}
\* Application-level participant identifiers.
UserIds == {"alice", "bob"}
\* Opaque offer / answer / candidate bodies.
Payloads == {"sdp"}

\* A JavaScript argument or property that is absent.
Undefined == "undefined"
\* The `null` that findSocketByUserId returns (line 173).
Null == "null"
\* An absent object: what users.get returns on a miss, and an event without data.
NoObject == [undefined |-> TRUE]

VARIABLES
    conn,         \* socket id -> "new" | "open" | "closed"
    users,        \* the Map `users`: entries in insertion order
    rooms,        \* the Map `rooms`: roomId -> Set of socket ids, in insertion order
    socketRooms,  \* socket id -> the adapter rooms the socket is in (socket.rooms)
    out,          \* socket id -> messages the last handler run delivered to it
    last,         \* the last event dispatched, with the handler's locals
    joins         \* the number of join-room events processed so far

vars == <<conn, users, rooms, socketRooms, out, last, joins>>

(***************************************************************************)
(* Map and Set primitives, with JavaScript's insertion-order semantics.    *)
(***************************************************************************)

\* Index of the entry of `users` whose key is id, 0 when there is none.
UsersIndex(u, id) ==
    IF \E i \in 1..Len(u) : u[i].socketId = id
    THEN CHOOSE i \in 1..Len(u) : u[i].socketId = id
    ELSE 0

\* users.has(id)
UsersHas(u, id) == UsersIndex(u, id) # 0

\* users.get(id): the entry, or undefined.
UsersGet(u, id) ==
    IF UsersHas(u, id)
    THEN [userId |-> u[UsersIndex(u, id)].userId, roomId |-> u[UsersIndex(u, id)].roomId]
    ELSE NoObject

\* users.set(id, { userId, roomId }): an existing key keeps its position.
UsersSet(u, id, userId, roomId) ==
    LET e == [socketId |-> id, userId |-> userId, roomId |-> roomId]
    IN IF UsersHas(u, id)
       THEN [u EXCEPT ![UsersIndex(u, id)] = e]
       ELSE Append(u, e)

\* users.delete(id) left out.
UsersDeleteNothing(u, id) == u

\* users.delete(id)
UsersDelete(u, id) == SelectSeq(u, LAMBDA e : e.socketId # id)

\* The elements of a sequence.
Range(q) == {q[i] : i \in 1..Len(q)}

\* room.add(socket.id) left out.
SetAddNothing(q, id) == q

\* set.add(id): an element already present keeps its position.
SetAdd(q, id) == IF id \in Range(q) THEN q ELSE Append(q, id)

\* set.delete(id)
SetDelete(q, id) == SelectSeq(q, LAMBDA x : x # id)

\* rooms.set(roomId, members)
RoomsSet(r, roomId, members) ==
    [k \in DOMAIN r \cup {roomId} |-> IF k = roomId THEN members ELSE r[k]]

\* The emptied member set is kept under its key instead of being deleted.
RoomsDeleteKeepsKey(r, roomId) == [k \in DOMAIN r |-> IF k = roomId THEN <<>> ELSE r[k]]

\* rooms.delete(roomId)
RoomsDelete(r, roomId) == [k \in DOMAIN r \ {roomId} |-> r[k]]

(***************************************************************************)
(* Outbound messages.                                                      *)
(***************************************************************************)
NoMessages == [t \in Sockets |-> <<>>]

\* Deliver msg once to every socket of `recipients`.
Deliver(o, recipients, msg) ==
    [t \in Sockets |-> IF t \in recipients THEN Append(o[t], msg) ELSE o[t]]

\* socket.to(room).emit(...): every socket in the adapter room, except the sender.
BroadcastRecipients(sr, room, sender) ==
    {t \in Sockets : room \in sr[t]} \ {sender}

\* io.to(room).emit(...): every socket in the adapter room.
RoomRecipients(sr, room) == {t \in Sockets : room \in sr[t]}

(***************************************************************************)
(* Initial state: the server listens, nobody has connected.                *)
(***************************************************************************)
Init ==
    /\ conn = [s \in Sockets |-> "new"]
    /\ users = <<>>
    /\ rooms = [k \in {} |-> <<>>]
    /\ socketRooms = [s \in Sockets |-> {}]
    /\ out = NoMessages
    /\ last = [ev |-> "listen"]
    /\ joins = 0

(***************************************************************************)
(* io.on('connection'): socket.io puts every socket in the adapter room    *)
(* named by its own id, which is what io.to(targetSocket) relies on.       *)
(* Sockets are numbered in the order in which they connect.                *)
(***************************************************************************)
Connection(s) ==
    /\ conn[s] = "new"
    /\ \A i \in 1..Len(SocketIds) :
          SocketIds[i] = s => \A j \in 1..(i - 1) : conn[SocketIds[j]] # "new"
    /\ conn' = [conn EXCEPT ![s] = "open"]
    /\ socketRooms' = [socketRooms EXCEPT ![s] = {s}]
    /\ out' = NoMessages
    /\ last' = [ev |-> "connection", id |-> s]
    /\ UNCHANGED <<users, rooms, joins>>


\* The roster of lines 94-97.
OtherUsers(u, members, id) ==
    LET others == SelectSeq(members, LAMBDA x : x # id)
        ids == [i \in 1..Len(others) |->
                   IF UsersHas(u, others[i]) THEN UsersGet(u, others[i]).userId
                   ELSE Undefined]
    IN SelectSeq(ids, LAMBDA x : x # Undefined)

(***************************************************************************)
(* socket.on('join-room', (roomId, userId) => ...)                         *)
(***************************************************************************)
JoinRoom(s, roomId, userId) ==
    /\ conn[s] = "open"
    /\ joins < MaxJoins
    /\ joins' = joins + 1
    /\ LET sr == [socketRooms EXCEPT ![s] = @ \cup {roomId}]
           u == UsersSet(users, s, userId, roomId)
           r0 == IF roomId \in DOMAIN rooms THEN rooms ELSE RoomsSet(rooms, roomId, <<>>)
           room == SetAdd(r0[roomId], s)
           r == RoomsSet(r0, roomId, room)
           o1 == Deliver(NoMessages, BroadcastRecipients(sr, roomId, s),
                         [kind |-> "user-joined", userId |-> userId])
           otherUsers == OtherUsers(u, room, s)
           o2 == Deliver(o1, {s}, [kind |-> "users-in-room", list |-> otherUsers])
       IN /\ socketRooms' = sr
          /\ users' = u
          /\ rooms' = r
          /\ out' = o2
          /\ last' = [ev |-> "join-room", id |-> s, roomId |-> roomId, userId |-> userId]
    /\ UNCHANGED conn

\* findSocketByUserId with the roomId comparison of line 169 left out.
FindSocketByUserIdAnyRoom(u, userId, roomId) ==
    LET hits == {i \in 1..Len(u) : u[i].userId = userId}
    IN IF hits = {} THEN Null
       ELSE u[CHOOSE i \in hits : \A j \in hits : i <= j].socketId

\* findSocketByUserId returning the last matching entry instead of the first.
FindSocketByUserIdLast(u, userId, roomId) ==
    LET hits == {i \in 1..Len(u) : u[i].userId = userId /\ u[i].roomId = roomId}
    IN IF hits = {} THEN Null
       ELSE u[CHOOSE i \in hits : \A j \in hits : i >= j].socketId

(***************************************************************************)
(* function findSocketByUserId(userId, roomId): the key of the first entry *)
(* of `users`, in insertion order, with that userId and roomId.            *)
(***************************************************************************)
FindSocketByUserId(u, userId, roomId) ==
    LET hits == {i \in 1..Len(u) : u[i].userId = userId /\ u[i].roomId = roomId}
    IN IF hits = {} THEN Null
       ELSE u[CHOOSE i \in hits : \A j \in hits : i <= j].socketId

\* The name of the sender field each routed event adds to its payload.
SenderField(kind) ==
    CASE kind = "offer" -> "callerUserId"
      [] kind = "answer" -> "answererUserId"
      [] kind = "ice-candidate" -> "senderUserId"

\* Lines 106-111 (124-128, 141-145): the socket the event is routed to, or Null
\* when the sender has no entry in `users` or nobody matches.
TargetSocket(u, s, data) ==
    LET sender == UsersGet(u, s)
    IN IF sender = NoObject THEN Null
       ELSE FindSocketByUserId(u, data.targetUserId, sender.roomId)

\* Route with the `if (sender)` guard of line 108 left out: an unknown sender's
\* event is routed to the first connection registered under targetUserId.
RouteAnySender(kind, s, data) ==
    /\ conn[s] = "open"
    /\ LET sender == UsersGet(users, s)
           targetSocket ==
               IF data = NoObject THEN Null
               ELSE IF sender = NoObject
                    THEN FindSocketByUserIdAnyRoom(users, data.targetUserId, Undefined)
                    ELSE FindSocketByUserId(users, data.targetUserId, sender.roomId)
       IN /\ out' = IF targetSocket = Null THEN NoMessages
                    ELSE Deliver(NoMessages, RoomRecipients(socketRooms, targetSocket),
                                 [kind |-> kind, body |-> data.body,
                                  field |-> SenderField(kind),
                                  from |-> IF sender = NoObject THEN Undefined
                                           ELSE sender.userId])
          /\ last' = [ev |-> kind, id |-> s, data |-> data, sender |-> sender,
                      targetSocket |-> targetSocket]
    /\ UNCHANGED <<conn, users, rooms, socketRooms, joins>>

\* Route that re-inserts the sender's users entry (delete, then set), which
\* moves it to the end of the Map's insertion order.
RouteRefreshesSender(kind, s, data) ==
    /\ conn[s] = "open"
    /\ LET sender == UsersGet(users, s)
           targetSocket == IF data = NoObject THEN Null ELSE TargetSocket(users, s, data)
       IN /\ out' = IF targetSocket = Null THEN NoMessages
                    ELSE Deliver(NoMessages, RoomRecipients(socketRooms, targetSocket),
                                 [kind |-> kind, body |-> data.body,
                                  field |-> SenderField(kind), from |-> sender.userId])
          /\ users' = IF sender = NoObject THEN users
                      ELSE UsersSet(UsersDelete(users, s), s, sender.userId, sender.roomId)
          /\ last' = [ev |-> kind, id |-> s, data |-> data, sender |-> sender,
                      targetSocket |-> targetSocket]
    /\ UNCHANGED <<conn, rooms, socketRooms, joins>>

(***************************************************************************)
(* The body shared by socket.on('offer'), socket.on('answer') and          *)
(* socket.on('ice-candidate').  Destructuring an absent `data` throws      *)
(* before anything else runs; the handler then has no effect.              *)
(***************************************************************************)
Route(kind, s, data) ==
    /\ conn[s] = "open"
    /\ LET sender == UsersGet(users, s)
           targetSocket == IF data = NoObject THEN Null ELSE TargetSocket(users, s, data)
       IN /\ out' = IF targetSocket = Null THEN NoMessages
                    ELSE Deliver(NoMessages, RoomRecipients(socketRooms, targetSocket),
                                 [kind |-> kind, body |-> data.body,
                                  field |-> SenderField(kind), from |-> sender.userId])
          /\ last' = [ev |-> kind, id |-> s, data |-> data, sender |-> sender,
                      targetSocket |-> targetSocket]
    /\ UNCHANGED <<conn, users, rooms, socketRooms, joins>>

\* socket.on('offer', (data) => ...)
Offer(s, data) == Route("offer", s, data)

\* socket.on('answer', (data) => ...)
Answer(s, data) == Route("answer", s, data)

\* socket.on('ice-candidate', (data) => ...)
IceCandidate(s, data) == Route("ice-candidate", s, data)

(***************************************************************************)
(* function handleUserLeave(socket), run with adapter membership sr.       *)
(***************************************************************************)
HandleUserLeave(ev, s, sr) ==
    LET user == UsersGet(users, s)
    IN IF user = NoObject
       THEN /\ users' = users
            /\ rooms' = rooms
            /\ socketRooms' = sr
            /\ out' = NoMessages
            /\ last' = [ev |-> ev, id |-> s, user |-> user]
       ELSE LET roomId == user.roomId
                hasRoom == roomId \in DOMAIN rooms
                room == IF hasRoom THEN SetDelete(rooms[roomId], s) ELSE <<>>
            IN /\ rooms' = IF ~hasRoom THEN rooms
                           ELSE IF Len(room) = 0 THEN RoomsDelete(rooms, roomId)
                           ELSE RoomsSet(rooms, roomId, room)
               /\ out' = IF hasRoom /\ Len(room) # 0
                         THEN Deliver(NoMessages, BroadcastRecipients(sr, roomId, s),
                                      [kind |-> "user-left", userId |-> user.userId])
                         ELSE NoMessages
               /\ users' = UsersDelete(users, s)
               /\ socketRooms' = [sr EXCEPT ![s] = @ \ {roomId}]
               /\ last' = [ev |-> ev, id |-> s, user |-> user]

\* socket.on('leave-room', () => ...)
LeaveRoom(s) ==
    /\ conn[s] = "open"
    /\ HandleUserLeave("leave-room", s, socketRooms)
    /\ UNCHANGED <<conn, joins>>

\* Disconnect handled like a leave-room: the closed socket stays in the
\* adapter rooms it had joined.
DisconnectKeepsRooms(s) ==
    /\ conn[s] = "open"
    /\ conn' = [conn EXCEPT ![s] = "closed"]
    /\ HandleUserLeave("disconnect", s, socketRooms)
    /\ UNCHANGED joins

(***************************************************************************)
(* socket.on('disconnect', () => ...): socket.io has taken the socket out  *)
(* of every adapter room before it emits 'disconnect'.                     *)
(***************************************************************************)
Disconnect(s) ==
    /\ conn[s] = "open"
    /\ conn' = [conn EXCEPT ![s] = "closed"]
    /\ HandleUserLeave("disconnect", s, [socketRooms EXCEPT ![s] = {}])
    /\ UNCHANGED joins

\* app.get('/api/stats') and app.get('/'): the sizes the endpoints report.
ActiveRooms == Cardinality(DOMAIN rooms)
ConnectedUsers == Len(users)

(***************************************************************************)
(* The events clients send.  Spec: every argument is present, and rooms    *)
(* are named by the agreed room names.                                     *)
(***************************************************************************)
DataArgs == [targetUserId : UserIds, body : Payloads]

Next ==
    \/ \E s \in Sockets : Connection(s)
    \/ \E s \in Sockets : \E roomId \in RoomNames : \E userId \in UserIds :
          JoinRoom(s, roomId, userId)
    \/ \E s \in Sockets : \E data \in DataArgs : Offer(s, data)
    \/ \E s \in Sockets : \E data \in DataArgs : Answer(s, data)
    \/ \E s \in Sockets : \E data \in DataArgs : IceCandidate(s, data)
    \/ \E s \in Sockets : LeaveRoom(s)
    \/ \E s \in Sockets : Disconnect(s)

Spec == Init /\ [][Next]_vars

(***************************************************************************)
(* SpecSocketIdRooms: roomId is whatever string the client sends (line 77  *)
(* passes it on to socket.join unchecked), so it may be a socket id.       *)
(***************************************************************************)
AnyRoomIds == {"r1", SocketIds[1]}

NextSocketIdRooms ==
    \/ \E s \in Sockets : Connection(s)
    \/ \E s \in Sockets : \E roomId \in AnyRoomIds : \E userId \in UserIds :
          JoinRoom(s, roomId, userId)
    \/ \E s \in Sockets : \E data \in DataArgs : Offer(s, data)
    \/ \E s \in Sockets : \E data \in DataArgs : Answer(s, data)
    \/ \E s \in Sockets : \E data \in DataArgs : IceCandidate(s, data)
    \/ \E s \in Sockets : LeaveRoom(s)
    \/ \E s \in Sockets : Disconnect(s)

SpecSocketIdRooms == Init /\ [][NextSocketIdRooms]_vars

(***************************************************************************)
(* SpecMalformed: clients may leave out an argument.  A missing roomId or  *)
(* userId arrives as undefined; a missing data object makes the            *)
(* destructuring of line 105 throw.                                        *)
(***************************************************************************)
MalformedRoomIds == {"r1", Undefined}
MalformedUserIds == {"alice", Undefined}
MalformedDataArgs == [targetUserId : MalformedUserIds, body : Payloads] \cup {NoObject}

NextMalformed ==
    \/ \E s \in Sockets : Connection(s)
    \/ \E s \in Sockets : \E roomId \in MalformedRoomIds : \E userId \in MalformedUserIds :
          JoinRoom(s, roomId, userId)
    \/ \E s \in Sockets : \E data \in MalformedDataArgs : Offer(s, data)
    \/ \E s \in Sockets : \E data \in MalformedDataArgs : Answer(s, data)
    \/ \E s \in Sockets : \E data \in MalformedDataArgs : IceCandidate(s, data)
    \/ \E s \in Sockets : LeaveRoom(s)
    \/ \E s \in Sockets : Disconnect(s)

SpecMalformed == Init /\ [][NextMalformed]_vars

(***************************************************************************)
(* Vocabulary of the properties.                                           *)
(***************************************************************************)

\* The connections whose `users` entry has roomId.
RegisteredIn(u, roomId) ==
    {s \in Sockets : UsersHas(u, s) /\ UsersGet(u, s).roomId = roomId}

\* Every room id the state mentions.
RoomIdsInUse == DOMAIN rooms \cup {users[i].roomId : i \in 1..Len(users)}

RouteKinds == {"offer", "answer", "ice-candidate"}
LeaveKinds == {"leave-room", "disconnect"}

\* How many messages of out[t] equal msg.
Count(t, msg) == Len(SelectSeq(out[t], LAMBDA m : m = msg))

\* How many messages of out[t] are of the given kind.
CountKind(t, kind) == Len(SelectSeq(out[t], LAMBDA m : m.kind = kind))

\* C1: for every roomId, rooms[roomId] holds exactly the connections whose
\* users entry has that roomId, and a roomId with no such connection is not a
\* key of rooms.
C1_BidirectionalConsistency ==
    \A roomId \in RoomIdsInUse :
        IF RegisteredIn(users, roomId) = {}
        THEN roomId \notin DOMAIN rooms
        ELSE /\ roomId \in DOMAIN rooms
             /\ Range(rooms[roomId]) = RegisteredIn(users, roomId)

\* C2: a connection whose disconnect has been processed has no entry in users
\* and is a member of no set in rooms.
C2_NoOrphanedEntries ==
    \A s \in Sockets :
        conn[s] = "closed" =>
            /\ ~UsersHas(users, s)
            /\ \A roomId \in DOMAIN rooms : s \notin Range(rooms[roomId])

\* C3: after a registered connection left or disconnected, if no connection
\* is registered in its room any more that roomId is no key of rooms; and when
\* no connection is registered at all, rooms is empty.
C3_RoomReclamation ==
    /\ (last.ev \in LeaveKinds /\ last.user # NoObject
          /\ RegisteredIn(users, last.user.roomId) = {})
        => last.user.roomId \notin DOMAIN rooms
    /\ users = <<>> => DOMAIN rooms = {}

\* The connections whose `users` entry is (userId, roomId).
RegisteredAs(u, userId, roomId) ==
    {s \in Sockets : UsersHas(u, s) /\ UsersGet(u, s) = [userId |-> userId, roomId |-> roomId]}

\* The message a routed event is to produce: the event's kind, the original
\* body, and the sender's participantId under the kind's field name.
Forwarded(kind, body, senderUserId) ==
    [kind |-> kind, body |-> body, from |-> senderUserId,
     field |-> CASE kind = "offer" -> "callerUserId"
                 [] kind = "answer" -> "answererUserId"
                 [] kind = "ice-candidate" -> "senderUserId"]

\* C4: every connection a routed offer, answer or ice-candidate is delivered
\* to has a users entry with the sender's roomId.
C4_CrossRoomIsolation ==
    last.ev \in RouteKinds =>
        \A t \in Sockets :
            out[t] # <<>> =>
                /\ last.sender # NoObject
                /\ t \in RegisteredIn(users, last.sender.roomId)

\* C5: a routed event whose sender has a users entry and whose targetUserId is
\* registered in the sender's room produces exactly one message: to a
\* connection registered as (targetUserId, sender's roomId), of the event's
\* kind, with the original body and the sender's participantId.
C5_RoutingResult ==
    (/\ last.ev \in RouteKinds
     /\ last.data # NoObject
     /\ last.sender # NoObject
     /\ RegisteredAs(users, last.data.targetUserId, last.sender.roomId) # {})
    => \E t \in RegisteredAs(users, last.data.targetUserId, last.sender.roomId) :
          /\ out[t] = <<Forwarded(last.ev, last.data.body, last.sender.userId)>>
          /\ \A x \in Sockets \ {t} : out[x] = <<>>

\* C6: an offer, answer or ice-candidate from a connection without a users
\* entry delivers nothing and leaves users and rooms unchanged.
C6_UnknownSender ==
    [][(last'.ev \in RouteKinds /\ ~UsersHas(users, last'.id))
        => (out' = NoMessages /\ users' = users /\ rooms' = rooms)]_vars

\* C6 witness: a connection without a users entry sent an event whose target
\* is registered.
C6_Witness ==
    /\ last.ev \in RouteKinds
    /\ last.sender = NoObject
    /\ \E i \in 1..Len(users) : users[i].userId = last.data.targetUserId

\* C7: an offer, answer or ice-candidate from a registered sender whose
\* targetUserId is registered by nobody in the sender's room delivers nothing,
\* not to the sender either, and leaves users and rooms unchanged.
C7_UnknownTarget ==
    [][(/\ last'.ev \in RouteKinds
        /\ last'.data # NoObject
        /\ UsersHas(users, last'.id)
        /\ RegisteredAs(users, last'.data.targetUserId,
                        UsersGet(users, last'.id).roomId) = {})
        => (out' = NoMessages /\ users' = users /\ rooms' = rooms)]_vars

\* C7 witness: a registered sender addressed a participantId that is
\* registered in another room only.
C7_Witness ==
    /\ last.ev \in RouteKinds
    /\ last.sender # NoObject
    /\ last.targetSocket = Null
    /\ out = NoMessages
    /\ \E i \in 1..Len(users) :
          /\ users[i].userId = last.data.targetUserId
          /\ users[i].roomId # last.sender.roomId

\* C8: the users-in-room message a joiner receives lists exactly the
\* participantIds of the other connections registered in the room, in the
\* order in which they joined it.
C8_RosterCorrectness ==
    last.ev = "join-room" =>
        LET others == SelectSeq(rooms[last.roomId],
                                LAMBDA x : x # last.id
                                           /\ x \in RegisteredIn(users, last.roomId))
            expected == [i \in 1..Len(others) |-> UsersGet(users, others[i]).userId]
        IN /\ Range(others) = RegisteredIn(users, last.roomId) \ {last.id}
           /\ SelectSeq(out[last.id], LAMBDA m : m.kind = "users-in-room")
                 = <<[kind |-> "users-in-room", list |-> expected]>>

\* C9: user-joined(p) goes exactly once to every other connection registered
\* in the room, and to no other connection.
C9_JoinNotification ==
    last.ev = "join-room" =>
        \A t \in Sockets :
            Count(t, [kind |-> "user-joined", userId |-> last.userId])
                = IF t \in RegisteredIn(users, last.roomId) \ {last.id} THEN 1 ELSE 0

\* C10: when a registered connection leaves or disconnects, user-left(p) goes
\* exactly once to every connection still registered in its room, and to no
\* other connection.
C10_LeaveNotification ==
    (last.ev \in LeaveKinds /\ last.user # NoObject) =>
        \A t \in Sockets :
            Count(t, [kind |-> "user-left", userId |-> last.user.userId])
                = IF t \in RegisteredIn(users, last.user.roomId) THEN 1 ELSE 0

\* C11: a leave-room or disconnect processed for a connection right after a
\* leave-room of the same connection leaves users and rooms as the first call
\* left them and delivers nothing.
C11_IdempotentCleanup ==
    [][(/\ last.ev \in LeaveKinds
        /\ last'.ev \in LeaveKinds
        /\ last'.id = last.id)
        => (users' = users /\ rooms' = rooms /\ out' = NoMessages)]_vars

\* C11 witness: a cleanup ran for a connection that had joined twice and had
\* already been cleaned up once, while other connections are registered.
C11_Witness ==
    /\ last.ev \in LeaveKinds
    /\ last.user = NoObject
    /\ \E roomId \in DOMAIN rooms :
          /\ last.id \in Range(rooms[roomId])
          /\ RegisteredIn(users, roomId) # {}

\* The event just dispatched lacks a required field.
MalformedEvent(e) ==
    \/ e.ev = "join-room" /\ (e.roomId = Undefined \/ e.userId = Undefined)
    \/ e.ev \in RouteKinds /\ (e.data = NoObject \/ e.data.targetUserId = Undefined)

\* C12: a join-room without roomId or participantId, and an offer, answer or
\* ice-candidate without payload or targetUserId, leave users and rooms
\* unchanged and deliver nothing to any other connection.
C12_MalformedRejected ==
    [][MalformedEvent(last')
        => (/\ users' = users
            /\ rooms' = rooms
            /\ \A t \in Sockets \ {last'.id} : out'[t] = <<>>)]_vars

\* C13: no handler run delivers a message of any kind to a connection whose
\* disconnect has been processed, its own disconnect included.
C13_ClosedNeverAddressed ==
    \A s \in Sockets : conn[s] = "closed" => out[s] = <<>>

\* C13 witness: a connection joined a room whose member set still holds a
\* closed connection, and the closed connection was sent no user-joined.
C13_Witness ==
    /\ last.ev = "join-room"
    /\ \E s \in Sockets :
          /\ conn[s] = "closed"
          /\ s \in Range(rooms[last.roomId])
          /\ CountKind(s, "user-joined") = 0

\* C14: for each roomId and participantId at most one connection has the
\* users entry (participantId, roomId).
C14_IdentityUniquePerRoom ==
    \A i \in 1..Len(users) :
        Cardinality(RegisteredAs(users, users[i].userId, users[i].roomId)) <= 1

\* C15: a join-room from a connection that has a users entry does not change
\* its registration, and a join-room that follows the connection's own
\* leave-room does not register it again.
C15_StateMachine ==
    [][last'.ev = "join-room"
        => (/\ UsersHas(users, last'.id)
                => UsersGet(users', last'.id) = UsersGet(users, last'.id)
            /\ (last.ev = "leave-room" /\ last.id = last'.id /\ last.user # NoObject)
                => ~UsersHas(users', last'.id))]_vars

\* A routed event whose target participantId is registered by two or more
\* connections of the sender's room.
RoutedToDuplicate ==
    /\ last.ev \in RouteKinds
    /\ last.data # NoObject
    /\ last.sender # NoObject
    /\ Cardinality(RegisteredAs(users, last.data.targetUserId, last.sender.roomId)) >= 2

\* The member of set S that comes last in sequence q.
LastIn(q, S) == q[CHOOSE i \in 1..Len(q) : q[i] \in S /\ \A j \in 1..Len(q) : q[j] \in S => j <= i]

\* C16 as claimed: with two connections registered under the target
\* participantId in the sender's room, the message goes to the one that joined
\* the room most recently (rooms[roomId] keeps the members in join order).
C16_LastJoinWins ==
    RoutedToDuplicate =>
        LET dup == RegisteredAs(users, last.data.targetUserId, last.sender.roomId)
        IN out[LastIn(rooms[last.sender.roomId], dup)]
              = <<Forwarded(last.ev, last.data.body, last.sender.userId)>>

\* C16 as amended: the message is addressed to the one whose users entry
\* comes first in the insertion order of the users Map.
C16_FirstEntryWins ==
    RoutedToDuplicate =>
        LET dup == RegisteredAs(users, last.data.targetUserId, last.sender.roomId)
            first == CHOOSE t \in dup :
                        \A x \in dup : UsersIndex(users, t) <= UsersIndex(users, x)
        IN /\ last.targetSocket = first
           /\ \A t \in Sockets :
                 out[t] # <<>> =>
                    /\ first \in socketRooms[t]
                    /\ out[t] = <<Forwarded(last.ev, last.data.body, last.sender.userId)>>

\* C16 witness: such a message was delivered to a connection that is not the
\* most recent joiner of the room.
C16_Witness ==
    /\ RoutedToDuplicate
    /\ \E t \in RegisteredAs(users, last.data.targetUserId, last.sender.roomId) :
          /\ out[t] # <<>>
          /\ t # LastIn(rooms[last.sender.roomId],
                        RegisteredAs(users, last.data.targetUserId, last.sender.roomId))

\* C17: every connection with a users entry (p, R) is a member of rooms[R],
\* and the socket a routed event resolves to is a member of the sender's room
\* set.
C17_RegisteredIsMember ==
    /\ \A i \in 1..Len(users) :
          /\ users[i].roomId \in DOMAIN rooms
          /\ users[i].socketId \in Range(rooms[users[i].roomId])
    /\ (last.ev \in RouteKinds /\ last.targetSocket # Null)
          => last.targetSocket \in Range(rooms[last.sender.roomId])

\* C17 witness: an event was routed while some room's member set holds a
\* connection that is not registered in it (the converse direction fails).
C17_Witness ==
    /\ last.ev \in RouteKinds
    /\ last.targetSocket # Null
    /\ \E roomId \in DOMAIN rooms : Range(rooms[roomId]) # RegisteredIn(users, roomId)

\* C18: every key of rooms maps to a non-empty member set, so the room count
\* the stats endpoints report is the number of non-empty rooms.
C18_NoEmptyRoom ==
    /\ \A roomId \in DOMAIN rooms : Len(rooms[roomId]) > 0
    /\ ActiveRooms = Cardinality({roomId \in DOMAIN rooms : rooms[roomId] # <<>>})

\* C18 witness: a leave emptied a room and removed its key while another room
\* is still there.
C18_Witness ==
    /\ last.ev \in LeaveKinds
    /\ last.user # NoObject
    /\ last.user.roomId \notin DOMAIN rooms
    /\ ActiveRooms > 0

\* C19: an offer, answer or ice-candidate, forwarded or dropped, changes
\* neither users nor rooms nor any connection's adapter room membership.
C19_RoutingReadOnly ==
    [][last'.ev \in RouteKinds
        => (users' = users /\ rooms' = rooms /\ socketRooms' = socketRooms)]_vars

\* C19 witness: an event was forwarded by a sender whose users entry is not
\* the last of the Map.
C19_Witness ==
    /\ last.ev \in RouteKinds
    /\ last.targetSocket # Null
    /\ out[last.targetSocket] # <<>>
    /\ UsersIndex(users, last.id) < Len(users)
=============================================================================
